---- MODULE Spec2Model ----
(***************************************************************************)
(* A model of the hand-written control loops of the repository:            *)
(*   - plan_and_execute/node.py + plan_and_execute.py: the graph           *)
(*     planner -> agent -> replan -> (agent | END), with extract_json;     *)
(*   - reflection/reflection.py: ResponderWithRetries.respond and the      *)
(*     graph draft -> execute_tools -> revise -> event_loop;               *)
(*   - extract_json of plan_and_execute/node.py applied on its own.        *)
(*   - rewoo/rewoo.py: the graph plan -> tool -> review -> (tool | solve); *)
(*   - agents/agent_skill.py: the tools load_skill and write_sql_query     *)
(*     over the agent state skills_loaded.                                 *)
(* A model text is a sequence of tokens; a token is a record [k, v].       *)
(***************************************************************************)
EXTENDS Integers, Sequences, FiniteSets, TLC

VARIABLES
    pc,          \* plan-execute: the node about to run, or "__end__" / "error"
    input,       \* state["input"]
    plan,        \* state["plan"]
    past_steps,  \* state["past_steps"]
    response,    \* state["response"]
    keys,        \* the keys of the graph state that hold a value
    error,       \* the exception that aborted the run
    calls,       \* the external calls made so far, in order
    step,        \* the supersteps of the graph run so far
    active,      \* the nodes the graph has scheduled for the next superstep
    g_pc,        \* reflection: the node about to run, or "__end__" / "error"
    messages,    \* reflection: state["messages"]
    r_pc,        \* respond: "idle", "loop", "returned", "raised"
    r_state,     \* respond: the local variable state
    r_attempt,   \* respond: the loop variable attempt of the next iteration
    r_response,  \* respond: the local variable response
    r_log,       \* respond: the invocations of the runnable in this call
    r_return,    \* respond: the value of "messages" in the returned dict
    r_error,     \* respond: the exception raised, "none" if none
    x_pc,        \* extract_json alone: "idle", "ready", "done", "redone"
    x_parts,     \* the parts the raw text is made of, in order
    x_out,       \* what extract_json gave for the raw text
    x_again,     \* what extract_json gave for the repaired candidate
    w_pc,        \* ReWOO: the node about to run, or "__end__" / "error"
    w_step,      \* ReWOO: state["step"]
    w_results,   \* ReWOO: state["results"]
    w_result,    \* ReWOO: state["result"]
    w_keys,      \* ReWOO: the keys of the graph state that hold a value
    w_error,     \* ReWOO: the exception that aborted the run, "none" if none
    w_log,       \* ReWOO: the nodes that ran to their end, in order
    k_pc,        \* skills agent: "idle", "model", "tools", "__end__"
    k_call,      \* skills agent: the tool call the model asked for
    k_keys,      \* skills agent: the keys of the state that hold a value
    k_skills_loaded, \* skills agent: state["skills_loaded"]
    k_messages   \* skills agent: the tool messages of state["messages"]

vars == <<pc, input, plan, past_steps, response, keys, error, calls,
          step, active,
          g_pc, messages, r_pc, r_state, r_attempt, r_response, r_log,
          r_return, r_error, x_pc, x_parts, x_out, x_again,
          w_pc, w_step, w_results, w_result, w_keys, w_error, w_log,
          k_pc, k_call, k_keys, k_skills_loaded, k_messages>>

peVars == <<pc, input, plan, past_steps, response, keys, error, calls,
            step, active>>
respVars == <<g_pc, messages, r_pc, r_state, r_attempt, r_response, r_log,
              r_return, r_error>>
xVars == <<x_pc, x_parts, x_out, x_again>>
wVars == <<w_pc, w_step, w_results, w_result, w_keys, w_error, w_log>>
kVars == <<k_pc, k_call, k_keys, k_skills_loaded, k_messages>>

(***************************************************************************)
(* Bounds of the model.                                                    *)
(***************************************************************************)
MaxToolCalls == 2 \* tool calls in one answer of the reflection graph
MaxResults == 3   \* tool executions of one ReWOO run the model explores
MaxToolMessages == 3 \* tool calls of one conversation of the skills agent
\* config["recursion_limit"]: the supersteps one run may take; 50 in the
\* reference run, a smaller ceiling here
recursion_limit == 5

Min(S) == CHOOSE x \in S : \A y \in S : x <= y
Max(S) == CHOOSE x \in S : \A y \in S : x >= y

(***************************************************************************)
(* Tokens of a model text.  Ws is one blank.                               *)
(***************************************************************************)
Tick == [k |-> "fence", v |-> <<>>]
Json == [k |-> "json", v |-> <<>>]
LBrace == [k |-> "{", v |-> <<>>]
RBrace == [k |-> "}", v |-> <<>>]
Comma == [k |-> ",", v |-> <<>>]
Ws == [k |-> " ", v |-> <<>>]
Junk == [k |-> "not json at all", v |-> <<>>]
\* the text  'steps': [s1, ..., sn]
StepsPair(s) == [k |-> "steps", v |-> s]
\* the text  'response': 'x'
ResponsePair(x) == [k |-> "response", v |-> <<x>>]
\* what the parser reduces a brace display to
DictNode == [k |-> "Dict", v |-> <<>>]
SetValueError == [k |-> "SetValueError", v |-> <<>>]
SetTypeError == [k |-> "SetTypeError", v |-> <<>>]

IsPair(t) == t.k \in {"steps", "response"}
IsAtom(t) == t \in {Json, DictNode, SetValueError, SetTypeError}

(***************************************************************************)
(* re.findall(pattern, text, re.DOTALL) with the pattern of a fenced json   *)
(* block: the contents of the non-overlapping matches found from position  *)
(* i on, leftmost first, each content the shortest one.                    *)
(***************************************************************************)
RECURSIVE re_findall(_, _)
re_findall(text, i) ==
    LET opens == {p \in i..(Len(text) - 1) : text[p] = Tick /\ text[p + 1] = Json}
    IN  IF opens = {} THEN <<>>
        ELSE LET p == Min(opens)
                 closes == {q \in (p + 2)..Len(text) : text[q] = Tick}
             IN  IF closes = {} THEN <<>>
                 ELSE <<SubSeq(text, p + 2, Min(closes) - 1)>>
                          \o re_findall(text, Min(closes) + 1)

\* str.strip(): the text without its leading and trailing blanks
strip(t) ==
    LET solid == {i \in 1..Len(t) : t[i] # Ws}
    IN  IF solid = {} THEN <<>> ELSE SubSeq(t, Min(solid), Max(solid))

\* the elements of t at the positions S, in order
RECURSIVE Pick(_, _)
Pick(t, S) ==
    IF S = {} THEN <<>> ELSE <<t[Min(S)]>> \o Pick(t, S \ {Min(S)})

\* The Python tokenizer on a candidate: blanks separate tokens and are
\* dropped; adjacent "json" words are one name.
Lex(t) ==
    Pick(t, {i \in 1..Len(t) :
                /\ t[i] # Ws
                /\ ~(t[i] = Json /\ i > 1 /\ t[i - 1] = Json)})

\* The items of a comma-separated list with at most one trailing comma:
\* [ok |-> whether c is such a list, items |-> its items].
Items(c) ==
    LET body == IF c # <<>> /\ c[Len(c)] = Comma
                THEN SubSeq(c, 1, Len(c) - 1) ELSE c
    IN  IF c = <<>> THEN [ok |-> TRUE, items |-> <<>>]
        ELSE IF /\ Len(body) % 2 = 1
                /\ \A i \in 1..Len(body) : (i % 2 = 0) <=> (body[i] = Comma)
             THEN [ok |-> TRUE,
                   items |-> Pick(body, {i \in 1..Len(body) : i % 2 = 1})]
             ELSE [ok |-> FALSE, items |-> <<>>]

\* What evaluating an atom gives: "ok" or the exception it raises.
AtomResult(t) ==
    CASE t = DictNode -> "ok"
      [] t = Json -> "ValueError"
      [] t = SetValueError -> "ValueError"
      [] t = SetTypeError -> "TypeError"
      [] OTHER -> "SyntaxError"

\* The contents c of one innermost pair of braces: a dict display (pairs
\* only), a set display (atoms only; building the set raises at its first
\* element, a name is a malformed node, a dict or set is unhashable), or a
\* syntax error.
Display(c) ==
    LET it == Items(c)
    IN  IF ~it.ok THEN Junk
        ELSE IF it.items = <<>> THEN (IF c = <<>> THEN DictNode ELSE Junk)
        ELSE IF \A i \in 1..Len(it.items) : IsPair(it.items[i]) THEN DictNode
        ELSE IF \A i \in 1..Len(it.items) : IsAtom(it.items[i])
             THEN (IF AtomResult(it.items[1]) = "ValueError"
                   THEN SetValueError ELSE SetTypeError)
        ELSE Junk

\* The expression at the top level: one atom, or a tuple of atoms.
TopLevel(c) ==
    LET it == Items(c)
        bad == {i \in 1..Len(it.items) : AtomResult(it.items[i]) # "ok"}
    IN  IF ~it.ok \/ it.items = <<>> THEN "SyntaxError"
        ELSE IF \E i \in 1..Len(it.items) : ~IsAtom(it.items[i]) THEN "SyntaxError"
        ELSE IF bad # {} THEN AtomResult(it.items[Min(bad)])
        ELSE IF Len(c) = 1 THEN "ok" ELSE "tuple"

\* ast.literal_eval on the tokens l: "ok" (a dict), "tuple" (a tuple of
\* dicts) or the exception raised.  Innermost braces are reduced first.
RECURSIVE Parse(_)
Parse(l) ==
    LET closes == {i \in 1..Len(l) : l[i] = RBrace}
    IN  IF closes = {}
        THEN (IF \E i \in 1..Len(l) : l[i] = LBrace
              THEN "SyntaxError" ELSE TopLevel(l))
        ELSE LET r == Min(closes)
                 opens == {i \in 1..(r - 1) : l[i] = LBrace}
             IN  IF opens = {} THEN "SyntaxError"
                 ELSE LET a == Max(opens)
                          node == Display(SubSeq(l, a + 1, r - 1))
                      IN  IF node = Junk THEN "SyntaxError"
                          ELSE Parse(SubSeq(l, 1, a - 1) \o <<node>>
                                       \o SubSeq(l, r + 1, Len(l)))

\* The dict a dict display evaluates to; a later key replaces an earlier one.
DictOf(c) ==
    LET st == {i \in 1..Len(c) : c[i].k = "steps"}
        rs == {i \in 1..Len(c) : c[i].k = "response"}
    IN  [kind |-> "dict",
         hasSteps |-> st # {},
         steps |-> IF st = {} THEN <<>> ELSE c[Max(st)].v,
         hasResponse |-> rs # {},
         response |-> IF rs = {} THEN "" ELSE c[Max(rs)].v[1]]

NoObject ==
    [kind |-> "none", hasSteps |-> FALSE, steps |-> <<>>,
     hasResponse |-> FALSE, response |-> ""]

TupleObject == [NoObject EXCEPT !.kind = "tuple"]

\* the candidate taken from the first fenced block instead of the last
Candidate_first(text) ==
    LET matches == re_findall(text, 1)
    IN  IF matches = <<>> THEN text ELSE strip(matches[1])

\* The payload candidate: the last fenced block, stripped, or the whole text.
Candidate(text) ==
    LET matches == re_findall(text, 1)
    IN  IF matches = <<>> THEN text ELSE strip(matches[Len(matches)])

\* the candidate with braces added whatever it starts with
Wrapped_always(match) == <<LBrace>> \o match \o <<RBrace>>

\* The candidate with braces added unless it starts with one.
Wrapped(match) ==
    IF match[1] # LBrace THEN <<LBrace>> \o match \o <<RBrace>> ELSE match

\* extract_json(message): [err |-> exception or "none", obj |-> output[0]]
extract_json(text) ==
    LET match == Candidate(text)
    IN  IF match = <<>> THEN [err |-> "IndexError", obj |-> NoObject]
        ELSE LET res == Parse(Lex(Wrapped(match)))
             IN  CASE res = "ok" -> [err |-> "none", obj |-> DictOf(Wrapped(match))]
                   [] res = "tuple" -> [err |-> "none", obj |-> TupleObject]
                   [] OTHER -> [err |-> res, obj |-> NoObject]

(***************************************************************************)
(* The plan-and-execute graph.                                             *)
(***************************************************************************)
\* What the models are taken to answer with.
Plans == {<<>>, <<"A">>, <<"A", "B", "C">>, <<"D", "E">>}
Responses == {"", "X"}
Results == {"Paris", "no result"}
Inputs == {"Melyik a legjobb reszveny az S&P500 indexben?"}

Bodies ==
    {<<StepsPair(p)>> : p \in Plans}
        \cup {<<ResponsePair(x)>> : x \in Responses}
        \cup {<<StepsPair(<<"D", "E">>), Comma, ResponsePair("X")>>, <<>>}

Fenced(b) == <<Tick, Json, Ws>> \o b \o <<Ws, Tick>>
Braced(b) == <<LBrace>> \o b \o <<RBrace>>

\* The texts a model call may return: a payload fenced, braced or bare, a
\* draft block restated before the final one, and malformed output.
ModelTexts ==
    {Fenced(b) : b \in Bodies} \cup {Braced(b) : b \in Bodies} \cup Bodies
        \cup {Fenced(<<StepsPair(<<"A">>)>>) \o <<Junk>> \o Fenced(b) : b \in Bodies}
        \cup {<<Junk>>, <<Ws>> \o Braced(<<StepsPair(<<"A">>)>>),
              Braced(<<StepsPair(<<"A">>)>>) \o <<Comma>>}

\* The step-execution capability returns a result text or raises.
Outcomes ==
    {[raised |-> FALSE, text |-> r] : r \in Results}
        \cup {[raised |-> TRUE, text |-> "search failed"]}

NoError == [type |-> "none", at |-> "none"]

\* A node's return: the exception it raised, or the keys it writes.
NoUpdate ==
    [err |-> NoError, writes |-> {}, plan |-> <<>>, response |-> "",
     past_steps |-> <<>>]
Raise(type, at) == [NoUpdate EXCEPT !.err = [type |-> type, at |-> at]]

\* plan_step: {"plan": output[0]["steps"]}
plan_step(text) ==
    LET output == extract_json(text)
    IN  IF output.err # "none" THEN Raise(output.err, "extract_json")
        ELSE IF output.obj.kind = "tuple" THEN Raise("TypeError", "plan_step")
        ELSE IF ~output.obj.hasSteps THEN Raise("KeyError", "plan_step")
        ELSE [NoUpdate EXCEPT !.writes = {"plan"}, !.plan = output.obj.steps]

\* execute_step running every step of the plan in the one pass
execute_step_all(p, outcome) ==
    IF p = <<>> THEN Raise("IndexError", "execute_step")
    ELSE IF outcome.raised THEN Raise(outcome.text, "agent_executor")
    ELSE [NoUpdate EXCEPT !.writes = {"past_steps"},
                          !.past_steps = [i \in 1..Len(p) |-> <<p[i], outcome.text>>]]

\* execute_step returning no past_steps entry
execute_step_forget(p, outcome) ==
    IF p = <<>> THEN Raise("IndexError", "execute_step")
    ELSE IF outcome.raised THEN Raise(outcome.text, "agent_executor")
    ELSE NoUpdate

\* execute_step: runs plan[0] only; the capability's exception is not caught.
execute_step(p, outcome) ==
    IF p = <<>> THEN Raise("IndexError", "execute_step")
    ELSE IF outcome.raised THEN Raise(outcome.text, "agent_executor")
    ELSE [NoUpdate EXCEPT !.writes = {"past_steps"},
                          !.past_steps = <<<<p[1], outcome.text>>>>]

\* The step the capability is asked to execute, if it is called at all.
execute_task(p) == IF p = <<>> THEN <<>> ELSE <<p[1]>>

\* replan_step keeping the steps of the old plan that were not executed
replan_step_merge(text) ==
    LET output == extract_json(text)
    IN  IF output.err # "none" THEN Raise(output.err, "extract_json")
        ELSE IF output.obj.kind = "dict" /\ output.obj.hasSteps
             THEN [NoUpdate EXCEPT !.writes = {"plan"},
                                   !.plan = Tail(plan) \o output.obj.steps]
        ELSE IF output.obj.kind = "tuple" THEN Raise("TypeError", "replan_step")
        ELSE IF ~output.obj.hasResponse THEN Raise("KeyError", "replan_step")
        ELSE [NoUpdate EXCEPT !.writes = {"response"},
                              !.response = output.obj.response]

\* replan_step giving the response precedence over the steps
replan_step_response_first(text) ==
    LET output == extract_json(text)
    IN  IF output.err # "none" THEN Raise(output.err, "extract_json")
        ELSE IF output.obj.kind = "tuple" THEN Raise("TypeError", "replan_step")
        ELSE IF output.obj.hasResponse
             THEN [NoUpdate EXCEPT !.writes = {"response"},
                                   !.response = output.obj.response]
        ELSE IF ~output.obj.hasSteps THEN Raise("KeyError", "replan_step")
        ELSE [NoUpdate EXCEPT !.writes = {"plan"}, !.plan = output.obj.steps]

\* replan_step: the plan when the output has steps, else the response.
replan_step(text) ==
    LET output == extract_json(text)
    IN  IF output.err # "none" THEN Raise(output.err, "extract_json")
        ELSE IF output.obj.kind = "dict" /\ output.obj.hasSteps
             THEN [NoUpdate EXCEPT !.writes = {"plan"}, !.plan = output.obj.steps]
        ELSE IF output.obj.kind = "tuple" THEN Raise("TypeError", "replan_step")
        ELSE IF ~output.obj.hasResponse THEN Raise("KeyError", "replan_step")
        ELSE [NoUpdate EXCEPT !.writes = {"response"},
                              !.response = output.obj.response]

\* should_end sending the run back to the planner
should_end_restart(ks, resp) ==
    IF "response" \in ks /\ resp # "" THEN "__end__" ELSE "planner"

\* should_end: "response" in state and state["response"]
should_end(ks, resp) ==
    IF "response" \in ks /\ resp # "" THEN "__end__" ELSE "agent"

\* The reducer of the past_steps channel of PlanExecute.
add_past_steps(old, new) == old \o new

\* the graph with the planner's edge going to the replanner as well
Edges_fanout ==
    {<<"__start__", "planner">>, <<"planner", "agent">>,
     <<"planner", "replan">>, <<"agent", "replan">>}

\* workflow.add_edge(...)
Edges ==
    {<<"__start__", "planner">>, <<"planner", "agent">>, <<"agent", "replan">>}

\* workflow.add_conditional_edges("replan", should_end)
ConditionalNodes == {"replan"}

\* The nodes scheduled after node: the ends of its edges and, for a node
\* with a conditional edge, what the edge's function returned.
Targets(node, branch) ==
    {e[2] : e \in {d \in Edges : d[1] = node}}
        \cup (IF node \in ConditionalNodes THEN {branch} ELSE {})

\* The graph engine: one superstep.  A node's writes go to the state, a
\* raised exception ends the run; then the edges out of the node are taken.
Apply(upd, targets) ==
    /\ step < recursion_limit
    /\ step' = step + 1
    /\ IF upd.err # NoError
       THEN /\ pc' = "error"
            /\ error' = upd.err
            /\ active' = {}
            /\ UNCHANGED <<plan, past_steps, response, keys>>
       ELSE /\ plan' = IF "plan" \in upd.writes THEN upd.plan ELSE plan
            /\ response' = IF "response" \in upd.writes
                           THEN upd.response ELSE response
            /\ past_steps' = IF "past_steps" \in upd.writes
                             THEN add_past_steps(past_steps, upd.past_steps)
                             ELSE past_steps
            /\ keys' = keys \cup upd.writes
            /\ pc' \in targets
            /\ active' = targets \ {"__end__"}
            /\ error' = error

\* The run has taken recursion_limit supersteps and is not finished: the
\* engine raises GraphRecursionError.
RecursionAbort ==
    /\ pc \in {"planner", "agent", "replan"}
    /\ step >= recursion_limit
    /\ pc' = "error"
    /\ error' = [type |-> "GraphRecursionError", at |-> "astream"]
    /\ active' = {}
    /\ UNCHANGED <<input, plan, past_steps, response, keys, calls, step,
                   respVars, xVars, wVars, kVars>>

Call(node, task) == [node |-> node, task |-> task]

PlannerWith(text) ==
    /\ pc = "planner"
    /\ calls' = Append(calls, Call("planner", <<>>))
    /\ Apply(plan_step(text), Targets("planner", "none"))
    /\ UNCHANGED <<input, respVars, xVars, wVars, kVars>>

Planner == \E text \in ModelTexts : PlannerWith(text)

AgentWith(outcome) ==
    /\ pc = "agent"
    /\ calls' = IF plan = <<>> THEN calls
                ELSE Append(calls, Call("agent", execute_task(plan)))
    /\ Apply(execute_step(plan, outcome), Targets("agent", "none"))
    /\ UNCHANGED <<input, respVars, xVars, wVars, kVars>>

Agent == \E outcome \in Outcomes : AgentWith(outcome)

ReplanWith(text) ==
    /\ pc = "replan"
    /\ calls' = Append(calls, Call("replan", <<>>))
    /\ LET upd == replan_step(text)
       IN  Apply(upd, Targets("replan",
                              should_end(keys \cup upd.writes,
                                         IF "response" \in upd.writes
                                         THEN upd.response ELSE response)))
    /\ UNCHANGED <<input, respVars, xVars, wVars, kVars>>

Replan == \E text \in ModelTexts : ReplanWith(text)

\* a step as re.findall gives it (the tool name and the tool input of the
\* five groups), and the step None
StepTuple(tool, tool_input) == [kind |-> "tuple", tool |-> tool, input |-> tool_input]
StepNone == [kind |-> "None", tool |-> "", input |-> ""]

\* no tool call is pending
NoCall == [tool |-> "none", name |-> "", query |-> ""]

\* the skills agent is not run
SkillsIdle ==
    /\ k_pc = "idle"
    /\ k_call = NoCall
    /\ k_keys = {}
    /\ k_skills_loaded = <<>>
    /\ k_messages = <<>>

\* the ReWOO graph is not run
ReWOOIdle ==
    /\ w_pc = "idle"
    /\ w_step = StepNone
    /\ w_results = <<>>
    /\ w_result = ""
    /\ w_keys = {}
    /\ w_error = "none"
    /\ w_log = <<>>

\* extract_json is not run on its own
ExtractIdle ==
    /\ x_pc = "idle"
    /\ x_parts = <<>>
    /\ x_out = [err |-> "none", obj |-> NoObject]
    /\ x_again = [err |-> "none", obj |-> NoObject]

RespIdle ==
    /\ g_pc = "idle"
    /\ messages = <<>>
    /\ r_pc = "idle"
    /\ r_state = <<>>
    /\ r_attempt = 0
    /\ r_response = <<>>
    /\ r_log = <<>>
    /\ r_return = <<>>
    /\ r_error = "none"

InitPlanExecute ==
    /\ pc \in Targets("__start__", "none")
    /\ active = Targets("__start__", "none")
    /\ step = 0
    /\ input \in Inputs
    /\ plan = <<>>
    /\ past_steps = <<>>
    /\ response = ""
    /\ keys = {"input", "past_steps"}
    /\ error = NoError
    /\ calls = <<>>
    /\ RespIdle
    /\ ExtractIdle
    /\ ReWOOIdle
    /\ SkillsIdle

NextPlanExecute == Planner \/ Agent \/ Replan \/ RecursionAbort

SpecPlanExecute == InitPlanExecute /\ [][NextPlanExecute]_vars

(***************************************************************************)
(* The reflection graph: draft -> execute_tools -> revise -> event_loop,   *)
(* with draft and revise each one call of ResponderWithRetries.respond.    *)
(***************************************************************************)
Msg(type, content) == [type |-> type, content |-> content]

Questions ==
    {"What is the most valueable stock share?",
     "How should we handle the climate crisis?"}

\* What the runnable may answer with, and the answers the validator rejects.
Answers == {"answer", "other answer", "malformed call", "incomplete call"}
Rejected == {"malformed call", "incomplete call"}
AIResponses == {Msg("ai", c) : c \in Answers}

\* self.validator.invoke(response): TRUE unless it raises ValidationError
validator(resp) == resp.content \notin Rejected

\* the ToolMessage built in the except clause
Corrective == Msg("tool", "Respond by fixing all validation errors.")
\* the message the tool node adds for the searches of the last answer
ToolResult == Msg("tool", "search results")

\* Python values of the local variable state: a dict with the key
\* "messages", or a list of messages.
PyDict(msgs) == [type |-> "dict", messages |-> msgs]
PyList(items) == [type |-> "list", messages |-> items]
PyTypeError == [type |-> "TypeError", messages |-> <<>>]
\* response = []
EmptyList == Msg("list", "")

\* a + b: defined for two lists, TypeError for a dict and a list
py_add(a, b) ==
    IF a.type = "list" /\ b.type = "list"
    THEN PyList(a.messages \o b.messages)
    ELSE PyTypeError

\* state['messages'] of a dict (indexing a list by a string is a TypeError)
py_messages(s) == s.messages

MaxAttempts == 3
\* range(3)
AttemptRangeEmpty == 0..(MaxAttempts - MaxAttempts - 1)
AttemptRange == 0..(MaxAttempts - 1)

MAX_ITERATIONS == 5

\* _get_num_iterations counting every message of the history
_get_num_iterations_all(state) == Len(state)

\* _get_num_iterations: the messages of type tool or ai at the end of state
_get_num_iterations(state) ==
    LET other == {i \in 1..Len(state) : state[i].type \notin {"tool", "ai"}}
    IN  IF other = {} THEN Len(state) ELSE Len(state) - Max(other)

\* event_loop ending the loop one message early
event_loop_early(msgs) ==
    IF _get_num_iterations(msgs) >= MAX_ITERATIONS THEN "__end__" ELSE "execute_tools"

event_loop(msgs) ==
    IF _get_num_iterations(msgs) > MAX_ITERATIONS THEN "__end__" ELSE "execute_tools"

\* the reducer of the messages channel: the update is appended
add_messages(left, right) == left \o right

\* the node that follows node n once its update is applied
NextNode(n, msgs) ==
    CASE n = "draft" -> "execute_tools"
      [] n = "execute_tools" -> "revise"
      [] n = "revise" -> event_loop(msgs)

\* respond starting from the history its last call was given
RespondCall_stale ==
    /\ g_pc \in {"draft", "revise"}
    /\ r_pc # "loop"
    /\ r_pc' = "loop"
    /\ r_state' = IF r_pc = "idle" THEN PyDict(messages) ELSE r_state
    /\ r_attempt' = 0
    /\ r_response' = EmptyList
    /\ r_log' = <<>>
    /\ r_return' = EmptyList
    /\ r_error' = "none"
    /\ UNCHANGED <<g_pc, messages, peVars, xVars, wVars, kVars>>

\* The graph calls respond(state) with the state dict.
RespondCall ==
    /\ g_pc \in {"draft", "revise"}
    /\ r_pc # "loop"
    /\ r_pc' = "loop"
    /\ r_state' = PyDict(messages)
    /\ r_attempt' = 0
    /\ r_response' = EmptyList
    /\ r_log' = <<>>
    /\ r_return' = EmptyList
    /\ r_error' = "none"
    /\ UNCHANGED <<g_pc, messages, peVars, xVars, wVars, kVars>>

\* respond returning the response it held before the last invocation
RespondReturn_stale(ret) ==
    LET msgs == add_messages(messages,
                             IF r_response = EmptyList THEN <<>> ELSE <<r_response>>)
    IN  /\ r_pc' = "returned"
        /\ r_return' = r_response
        /\ messages' = msgs
        /\ g_pc' = NextNode(g_pc, msgs)
        /\ UNCHANGED <<r_state, r_attempt, r_error>>

\* respond returns {"messages": ret}: the node's update is applied and the
\* edge out of the node is taken.
RespondReturn(ret) ==
    LET msgs == add_messages(messages, IF ret = EmptyList THEN <<>> ELSE <<ret>>)
    IN  /\ r_pc' = "returned"
        /\ r_return' = ret
        /\ messages' = msgs
        /\ g_pc' = NextNode(g_pc, msgs)
        /\ UNCHANGED <<r_state, r_attempt, r_error>>

\* an exception leaves respond and ends the run
RespondRaise(type) ==
    /\ r_pc' = "raised"
    /\ r_error' = type
    /\ g_pc' = "error"
    /\ UNCHANGED <<r_state, r_attempt, r_return, messages>>

\* One iteration of the for loop, the runnable answering resp; or, the
\* range used up, the return after the loop.
RespondWith(resp) ==
    /\ r_pc = "loop"
    /\ IF r_attempt \in AttemptRange
       THEN IF r_state.type # "dict"
            THEN /\ RespondRaise("TypeError")
                 /\ UNCHANGED <<r_response, r_log>>
            ELSE /\ r_response' = resp
                 /\ r_log' = Append(r_log, [messages |-> py_messages(r_state),
                                            response |-> resp,
                                            valid |-> validator(resp)])
                 /\ IF validator(resp)
                    THEN RespondReturn(resp)
                    ELSE LET grown == py_add(r_state, PyList(<<resp, Corrective>>))
                         IN  IF grown = PyTypeError
                             THEN RespondRaise("TypeError")
                             ELSE /\ r_state' = grown
                                  /\ r_attempt' = r_attempt + 1
                                  /\ UNCHANGED <<r_pc, r_return, r_error,
                                                 g_pc, messages>>
       ELSE /\ RespondReturn(r_response)
            /\ UNCHANGED <<r_response, r_log>>
    /\ UNCHANGED <<peVars, xVars, wVars, kVars>>

Respond == \E resp \in AIResponses : RespondWith(resp)

\* the tool node runs the tool calls of the last answer and adds one tool
\* message for each of them
ExecuteToolsFor(n) ==
    /\ g_pc = "execute_tools"
    /\ messages' = add_messages(messages, [i \in 1..n |-> ToolResult])
    /\ g_pc' = NextNode(g_pc, messages')
    /\ UNCHANGED <<r_pc, r_state, r_attempt, r_response, r_log, r_return,
                   r_error, peVars, xVars, wVars, kVars>>

ExecuteTools == \E n \in 1..MaxToolCalls : ExecuteToolsFor(n)

PlanExecuteIdle ==
    /\ pc = "idle"
    /\ input = ""
    /\ plan = <<>>
    /\ past_steps = <<>>
    /\ response = ""
    /\ keys = {}
    /\ error = NoError
    /\ calls = <<>>
    /\ step = 0
    /\ active = {}

InitReflection ==
    /\ g_pc = "draft"
    /\ messages \in {<<Msg("human", q)>> : q \in Questions}
    /\ r_pc = "idle"
    /\ r_state = PyDict(<<>>)
    /\ r_attempt = 0
    /\ r_response = EmptyList
    /\ r_log = <<>>
    /\ r_return = EmptyList
    /\ r_error = "none"
    /\ PlanExecuteIdle
    /\ ExtractIdle
    /\ ReWOOIdle
    /\ SkillsIdle

NextReflection == RespondCall \/ Respond \/ ExecuteTools

SpecReflection == InitReflection /\ [][NextReflection]_vars

(***************************************************************************)
(* extract_json on its own: a raw text is drawn, extract_json is applied   *)
(* to it, and then once more to the candidate it repaired.                 *)
(***************************************************************************)
\* A raw text is given as its parts: fenced json blocks and the text
\* outside of them.
Block(c) == [fenced |-> TRUE, body |-> c]
Outside(c) == [fenced |-> FALSE, body |-> c]

\* the characters of one part
PartText(part) ==
    IF part.fenced THEN <<Tick, Json>> \o part.body \o <<Tick>> ELSE part.body

\* message.content: the parts one after the other
RECURSIVE RawText(_)
RawText(parts) ==
    IF parts = <<>> THEN <<>> ELSE PartText(Head(parts)) \o RawText(Tail(parts))

\* what may stand outside of the blocks, and inside of a block
Outsides == {<<>>, <<Ws>>, <<Junk>>, <<Tick, Junk, Tick, Ws>>}
Padded(c) == <<Ws>> \o c \o <<Ws>>
Contents ==
    UNION {{b, Braced(b), Padded(b), Padded(Braced(b))} : b \in Bodies}
        \cup {<<Junk>>, Braced(<<Junk>>)}
Drafts ==
    {<<>>, <<Junk>>, Padded(<<StepsPair(<<"A">>)>>),
     Braced(<<ResponsePair("X")>>), <<ResponsePair("")>>}

Unfenced == {<<Outside(o \o c)>> : o \in Outsides, c \in Contents}
OneBlock ==
    {<<Outside(o1), Block(c), Outside(o2)>> :
        o1 \in Outsides, c \in Contents, o2 \in Outsides}
TwoBlocks ==
    {<<Outside(o1), Block(d), Outside(o2), Block(c), Outside(o3)>> :
        o1 \in Outsides, d \in Drafts, o2 \in Outsides, c \in Contents,
        o3 \in Outsides}
RawTexts == Unfenced \cup OneBlock \cup TwoBlocks

\* python_obj of extract_json(message) for the drawn text
Extract ==
    /\ x_pc = "ready"
    /\ x_pc' = "done"
    /\ x_out' = extract_json(RawText(x_parts))
    /\ UNCHANGED <<x_parts, x_again, peVars, respVars, wVars, kVars>>

\* extract_json once more, on the candidate as the first run repaired it
\* (there is none when match[0] raised)
ExtractAgain ==
    /\ x_pc = "done"
    /\ Candidate(RawText(x_parts)) # <<>>
    /\ x_pc' = "redone"
    /\ x_again' = extract_json(Wrapped(Candidate(RawText(x_parts))))
    /\ UNCHANGED <<x_parts, x_out, peVars, respVars, wVars, kVars>>

InitExtract ==
    /\ x_pc = "ready"
    /\ x_parts \in RawTexts
    /\ x_out = [err |-> "none", obj |-> NoObject]
    /\ x_again = [err |-> "none", obj |-> NoObject]
    /\ PlanExecuteIdle
    /\ RespIdle
    /\ ReWOOIdle
    /\ SkillsIdle

NextExtract == Extract \/ ExtractAgain

SpecExtract == InitExtract /\ [][NextExtract]_vars

(***************************************************************************)
(* The ReWOO graph of rewoo/rewoo.py: plan -> tool -> review -> (tool |     *)
(* solve) -> END.  A model answer is a sequence of lines.                  *)
(***************************************************************************)
\* a line of prose, and a line declaring a step: Step: ... #E = tool[input]
Prose == [kind |-> "prose", tool |-> "", input |-> ""]
StepLine(tool, tool_input) == [kind |-> "step", tool |-> tool, input |-> tool_input]

ToolNames == {"WebSearch", "LLM", "WolframAlpha"}
ModelLines ==
    {Prose, StepLine("WebSearch", "")} \cup {StepLine(t, "query") : t \in ToolNames}
\* the answers of the planner and the reviewer: up to two lines
ReWOOTexts ==
    {<<>>} \cup {<<a>> : a \in ModelLines}
        \cup {<<a, b>> : a \in ModelLines, b \in ModelLines}

\* regex_pattern matches a step line whose brackets are not empty
Matches(line) == line.kind = "step" /\ line.input # ""

\* re.findall(regex_pattern, result.content)
RECURSIVE re_findall_steps(_)
re_findall_steps(text) ==
    IF text = <<>> THEN <<>>
    ELSE (IF Matches(Head(text))
          THEN <<StepTuple(Head(text).tool, Head(text).input)>> ELSE <<>>)
             \o re_findall_steps(Tail(text))

\* get_plan: {"step": matches[0] if len(matches) > 0 else None}
get_plan(text) ==
    LET matches == re_findall_steps(text)
    IN  IF Len(matches) > 0 THEN matches[1] ELSE StepNone

\* review_plan: {"step": matches[0] if len(matches) > 0 else None}
review_plan(text) ==
    LET matches == re_findall_steps(text)
    IN  IF Len(matches) > 0 THEN matches[1] ELSE StepNone

\* what search.run or model.invoke gives: a result, or an exception
ToolOutcomes ==
    {[raised |-> FALSE, text |-> r] : r \in {"evidence", "other evidence"}}
        \cup {[raised |-> TRUE, text |-> "search failed"]}

\* (state["results"] or []) if "results" in state else []
results_read(ks, results) == IF "results" \in ks THEN results ELSE <<>>

\* tool_execution putting the new result in front of the others
tool_execution_front(stp, results, outcome) ==
    IF stp = StepNone THEN [err |-> "TypeError", results |-> results]
    ELSE IF stp.tool \notin {"WebSearch", "LLM"}
         THEN [err |-> "ValueError", results |-> results]
    ELSE IF outcome.raised THEN [err |-> outcome.text, results |-> results]
    ELSE [err |-> "none", results |-> <<outcome.text>> \o results]

\* tool_execution: unpacks the step, runs its tool and appends the result
tool_execution(stp, results, outcome) ==
    IF stp = StepNone THEN [err |-> "TypeError", results |-> results]
    ELSE IF stp.tool \notin {"WebSearch", "LLM"}
         THEN [err |-> "ValueError", results |-> results]
    ELSE IF outcome.raised THEN [err |-> outcome.text, results |-> results]
    ELSE [err |-> "none", results |-> Append(results, outcome.text)]

\* _route sending a run with a step to solve
_route_inverted(stp) == IF stp = StepNone THEN "tool" ELSE "solve"

\* _route: solve when the step is None, else the tool node
_route(stp) == IF stp = StepNone THEN "solve" ELSE "tool"

GetPlanWith(text) ==
    /\ w_pc = "plan"
    /\ w_step' = get_plan(text)
    /\ w_keys' = w_keys \cup {"step"}
    /\ w_log' = Append(w_log, "plan")
    /\ w_pc' = "tool"
    /\ UNCHANGED <<w_results, w_result, w_error, peVars, respVars, xVars,
                   kVars>>

GetPlan == \E text \in ReWOOTexts : GetPlanWith(text)

ToolExecutionWith(outcome) ==
    /\ w_pc = "tool"
    /\ Len(w_results) < MaxResults
    /\ LET out == tool_execution(w_step, results_read(w_keys, w_results), outcome)
       IN  IF out.err # "none"
           THEN /\ w_pc' = "error"
                /\ w_error' = out.err
                /\ UNCHANGED <<w_results, w_keys, w_log>>
           ELSE /\ w_results' = out.results
                /\ w_keys' = w_keys \cup {"results"}
                /\ w_log' = Append(w_log, "tool")
                /\ w_pc' = "review"
                /\ w_error' = w_error
    /\ UNCHANGED <<w_step, w_result, peVars, respVars, xVars,
                   kVars>>

ToolExecution == \E outcome \in ToolOutcomes : ToolExecutionWith(outcome)

ReviewPlanWith(text) ==
    /\ w_pc = "review"
    /\ w_step' = review_plan(text)
    /\ w_log' = Append(w_log, "review")
    /\ w_pc' = _route(review_plan(text))
    /\ UNCHANGED <<w_results, w_result, w_keys, w_error, peVars, respVars, xVars,
                   kVars>>

ReviewPlan == \E text \in ReWOOTexts : ReviewPlanWith(text)

\* solve: {"result": result.content}, then the edge to END
SolveWith(answer) ==
    /\ w_pc = "solve"
    /\ w_result' = answer
    /\ w_keys' = w_keys \cup {"result"}
    /\ w_log' = Append(w_log, "solve")
    /\ w_pc' = "__end__"
    /\ UNCHANGED <<w_step, w_results, w_error, peVars, respVars, xVars,
                   kVars>>

Solve == \E answer \in {"final answer", "no answer"} : SolveWith(answer)

\* app.invoke({"task": ...})
InitReWOO ==
    /\ w_pc = "plan"
    /\ w_step = StepNone
    /\ w_results = <<>>
    /\ w_result = ""
    /\ w_keys = {"task"}
    /\ w_error = "none"
    /\ w_log = <<>>
    /\ PlanExecuteIdle
    /\ RespIdle
    /\ ExtractIdle
    /\ SkillsIdle

NextReWOO == GetPlan \/ ToolExecution \/ ReviewPlan \/ Solve

SpecReWOO == InitReWOO /\ [][NextReWOO]_vars

(***************************************************************************)
(* The skills agent of agents/agent_skill.py: the model asks for a tool    *)
(* call, the tool node runs load_skill or write_sql_query and applies what *)
(* the tool returns to the agent state.                                    *)
(***************************************************************************)
\* the names of the SKILLS catalogue, in order
SKILLS == <<"sales_analytics", "inventory_management">>
\* the names the model may ask for
SkillRequests == {"sales_analytics", "inventory_management", "marketing"}
Queries == {"SELECT 1"}

\* the contents of the tool messages, by their parts
LoadedMsg(skill_name) == [kind |-> "loaded", name |-> skill_name, query |-> ""]
NotFoundMsg(skill_name) == [kind |-> "not found", name |-> skill_name, query |-> ""]
ValidatedMsg(query, vertical) ==
    [kind |-> "validated", name |-> vertical, query |-> query]
MustLoadMsg(vertical) == [kind |-> "must load", name |-> vertical, query |-> ""]

ToolCalls ==
    {[tool |-> "load_skill", name |-> n, query |-> ""] : n \in SkillRequests}
        \cup {[tool |-> "write_sql_query", name |-> v, query |-> q] :
                  v \in SkillRequests, q \in Queries}

Elements(list) == {list[i] : i \in 1..Len(list)}

\* load_skill: the update of the Command it returns
load_skill(skill_name) ==
    IF \E i \in 1..Len(SKILLS) : SKILLS[i] = skill_name
    THEN [writes |-> {"messages", "skills_loaded"},
          messages |-> <<LoadedMsg(skill_name)>>,
          skills_loaded |-> <<skill_name>>]
    ELSE [writes |-> {"messages"},
          messages |-> <<NotFoundMsg(skill_name)>>,
          skills_loaded |-> <<>>]

\* runtime.state.get("skills_loaded", [])
state_get_skills_loaded(ks, loaded) ==
    IF "skills_loaded" \in ks THEN loaded ELSE <<>>

\* write_sql_query answering whatever has been loaded
write_sql_query_open(query, vertical, ks, loaded) == ValidatedMsg(query, vertical)

\* write_sql_query: the text it returns
write_sql_query(query, vertical, ks, loaded) ==
    IF vertical \notin Elements(state_get_skills_loaded(ks, loaded))
    THEN MustLoadMsg(vertical)
    ELSE ValidatedMsg(query, vertical)

\* The channel skills_loaded of CustomState has no reducer: an update
\* replaces the value.
skills_loaded_channel(old, new) == new

\* the model asks for a tool call
ModelCall ==
    /\ k_pc = "model"
    /\ Len(k_messages) < MaxToolMessages
    /\ k_call' \in ToolCalls
    /\ k_pc' = "tools"
    /\ UNCHANGED <<k_keys, k_skills_loaded, k_messages, peVars, respVars,
                   xVars, wVars>>

\* the model answers the user and the run ends
ModelFinish ==
    /\ k_pc = "model"
    /\ k_pc' = "__end__"
    /\ UNCHANGED <<k_call, k_keys, k_skills_loaded, k_messages, peVars,
                   respVars, xVars, wVars>>

\* the tool node runs load_skill and applies the Command's update
LoadSkill ==
    /\ k_pc = "tools"
    /\ k_call.tool = "load_skill"
    /\ LET update == load_skill(k_call.name)
       IN  /\ k_messages' = add_messages(k_messages, update.messages)
           /\ k_skills_loaded' =
                  IF "skills_loaded" \in update.writes
                  THEN skills_loaded_channel(k_skills_loaded, update.skills_loaded)
                  ELSE k_skills_loaded
           /\ k_keys' = k_keys \cup update.writes
    /\ k_call' = NoCall
    /\ k_pc' = "model"
    /\ UNCHANGED <<peVars, respVars, xVars, wVars>>

\* the tool node runs write_sql_query and adds a tool message with the
\* text it returned
WriteSqlQuery ==
    /\ k_pc = "tools"
    /\ k_call.tool = "write_sql_query"
    /\ k_messages' =
          add_messages(k_messages,
                       <<write_sql_query(k_call.query, k_call.name,
                                         k_keys, k_skills_loaded)>>)
    /\ k_call' = NoCall
    /\ k_pc' = "model"
    /\ UNCHANGED <<k_keys, k_skills_loaded, peVars, respVars, xVars, wVars>>

\* agent.invoke({"messages": [user message]}, config)
InitSkills ==
    /\ k_pc = "model"
    /\ k_call = NoCall
    /\ k_keys = {"messages"}
    /\ k_skills_loaded = <<>>
    /\ k_messages = <<>>
    /\ PlanExecuteIdle
    /\ RespIdle
    /\ ExtractIdle
    /\ ReWOOIdle

NextSkills == ModelCall \/ ModelFinish \/ LoadSkill \/ WriteSqlQuery

SpecSkills == InitSkills /\ [][NextSkills]_vars

(***************************************************************************)
(* Properties of the plan-and-execute graph (SpecPlanExecute).             *)
(***************************************************************************)
\* what the replanner's output parses to
Parsed(text) == extract_json(text)
ResponseOnly(text) ==
    /\ Parsed(text).err = "none"
    /\ Parsed(text).obj.kind = "dict"
    /\ Parsed(text).obj.hasResponse
    /\ ~Parsed(text).obj.hasSteps
WithSteps(text) ==
    /\ Parsed(text).err = "none"
    /\ Parsed(text).obj.kind = "dict"
    /\ Parsed(text).obj.hasSteps

IsPrefix(a, b) == Len(a) <= Len(b) /\ SubSeq(b, 1, Len(a)) = a

\* C1: a replan step whose output is {response: X}, for any string X, the
\* empty one included, ends the run with response X and leaves past_steps
\* as it was.
C1_ResponseEndsRun ==
    [][\A text \in ModelTexts :
          (ReplanWith(text) /\ ResponseOnly(text))
              => /\ pc' = "__end__"
                 /\ response' = Parsed(text).obj.response
                 /\ past_steps' = past_steps]_vars

\* C2: whenever the agent node (execute_step) is about to run, the stored
\* plan is a non-empty sequence.
C2_PlanNonEmptyInExecute == pc = "agent" => plan # <<>>

\* C5: with a non-empty plan, the agent node calls the step-execution
\* capability once, for plan[0] only, leaves the plan unchanged and appends
\* the one pair (plan[0], result) to past_steps; the next call after a call
\* of the capability is always the replanner's.
C5_ExecutesOnlyFirstStep ==
    [][/\ (pc = "agent" /\ plan # <<>> /\ step' # step)
            => /\ calls' = Append(calls, Call("agent", <<plan[1]>>))
               /\ plan' = plan
               /\ \/ /\ pc' = "replan"
                     /\ \E r \in Results :
                            past_steps' = Append(past_steps, <<plan[1], r>>)
                  \/ /\ pc' = "error"
                     /\ past_steps' = past_steps
       /\ \A i \in 1..(Len(calls') - 1) :
              calls'[i].node = "agent" => calls'[i + 1].node = "replan"]_vars

C5_Witness ==
    /\ pc = "replan"
    /\ plan = <<"A", "B", "C">>
    /\ past_steps = <<<<"A", "Paris">>>>
    /\ calls[Len(calls)] = Call("agent", <<"A">>)

\* C6: a replan step whose output has steps S makes the stored plan exactly
\* S, writes no response, leaves past_steps as it was and goes back to the
\* agent node.
C6_ReplanReplacesPlan ==
    [][\A text \in ModelTexts :
          (ReplanWith(text) /\ WithSteps(text))
              => /\ plan' = Parsed(text).obj.steps
                 /\ response' = response
                 /\ keys' = keys \cup {"plan"}
                 /\ past_steps' = past_steps
                 /\ pc' = "agent"]_vars

C6_Witness ==
    /\ pc = "agent"
    /\ plan = <<"D", "E">>
    /\ Len(past_steps) = 1
    /\ past_steps[1][1] = "A"
    /\ calls[Len(calls)].node = "replan"

\* C7: a model output the extractor cannot parse does not abort the run:
\* the extraction error is recovered by a retry of the model call.
C7_ExtractionErrorRecovered == error.at # "extract_json"

\* C8: when the step-execution capability raises, the failure is recorded
\* as the step's result in past_steps and the replanner runs next.
C8_ToolErrorRecorded ==
    [][\A o \in Outcomes :
          (AgentWith(o) /\ o.raised /\ plan # <<>>)
              => /\ pc' = "replan"
                 /\ past_steps' = Append(past_steps, <<plan[1], o.text>>)]_vars

\* C9: a response, once written, is never changed, and after a replan step
\* the run ends exactly when a response has been written.
C9_ResponseWrittenOnce ==
    [][/\ "response" \in keys => (response' = response /\ "response" \in keys')
       /\ (pc = "replan" /\ pc' \in {"agent", "__end__"})
            => (pc' = "__end__" <=> "response" \in keys')]_vars

\* C10: past_steps only grows: each step keeps the old value as a prefix,
\* a completed execute step adds exactly one entry, plan_step and
\* replan_step add none.
C10_PastStepsAppendOnly ==
    [][/\ IsPrefix(past_steps, past_steps')
       /\ (pc = "agent" /\ pc' = "replan")
            => Len(past_steps') = Len(past_steps) + 1
       /\ pc \in {"planner", "replan"} => past_steps' = past_steps]_vars

C10_Witness ==
    /\ Len(past_steps) = 2
    /\ pc = "replan"

\* C14: a run ends in DONE with a response set, or is aborted by the
\* iteration ceiling without a response, and in no other way; it never
\* takes more supersteps than the ceiling.
C14_EndsDoneOrAtCeiling ==
    /\ step <= recursion_limit
    /\ pc = "__end__" => ("response" \in keys /\ response # "")
    /\ pc = "error" => /\ error.type = "GraphRecursionError"
                       /\ step = recursion_limit
                       /\ ~("response" \in keys /\ response # "")

\* the nodes of the external calls made so far
CallNodes == [i \in 1..Len(calls) |-> calls[i].node]

\* C17: at most one node is scheduled for any superstep, it is the node
\* about to run, and the calls of the run are made one after the other:
\* each superstep adds at most one call to the log of finished calls.
C17_OneNodeAtATime ==
    [][/\ Cardinality(active) <= 1
       /\ Cardinality(active') <= 1
       /\ pc' \in {"planner", "agent", "replan"} => active' = {pc'}
       /\ Len(calls') <= Len(calls) + 1
       /\ IsPrefix(calls, calls')]_vars

C17_Witness ==
    /\ step = 4
    /\ active = {"replan"}
    /\ CallNodes = <<"planner", "agent", "replan", "agent">>

\* C20: the nodes run in the order planner, then agent and replan in
\* turn: the planner runs first and only once, a replan step comes
\* directly after an execute step and an execute step directly before a
\* replan step, and the run ends normally only out of a replan step.
C20_NodeOrder ==
    [][/\ pc = "planner" <=> step = 0
       /\ pc' # "planner"
       /\ pc' = "replan" => pc = "agent"
       /\ (pc = "agent" /\ pc' \notin {"agent", "error"}) => pc' = "replan"
       /\ pc' = "agent" => pc \in {"planner", "replan"}
       /\ pc' = "__end__" => pc = "replan"
       /\ \A i \in 1..Len(calls') :
              calls'[i].node = (IF i = 1 THEN "planner"
                                ELSE IF i % 2 = 0 THEN "agent" ELSE "replan")]_vars

C20_Witness ==
    /\ pc = "__end__"
    /\ CallNodes = <<"planner", "agent", "replan", "agent", "replan">>
    /\ response = "X"

\* C22: a replan step writes exactly one of plan and response: the plan
\* alone when the parsed payload has a steps key, whether or not it has a
\* response key too; the response alone when it has a response key and no
\* steps key; with neither key the step fails and the state stays as it was.
C22_WritesPlanOrResponse ==
    [][\A text \in ModelTexts :
          (ReplanWith(text) /\ Parsed(text).err = "none"
                /\ Parsed(text).obj.kind = "dict")
              => LET obj == Parsed(text).obj
                 IN  /\ obj.hasSteps
                          => /\ plan' = obj.steps
                             /\ response' = response
                             /\ keys' = keys \cup {"plan"}
                     /\ (obj.hasResponse /\ ~obj.hasSteps)
                          => /\ response' = obj.response
                             /\ plan' = plan
                             /\ keys' = keys \cup {"response"}
                     /\ (~obj.hasResponse /\ ~obj.hasSteps)
                          => /\ pc' = "error"
                             /\ error' = [type |-> "KeyError", at |-> "replan_step"]
                             /\ UNCHANGED <<plan, response, past_steps, keys>>
                     /\ ~(plan' # plan /\ response' # response)]_vars

C22_Witness ==
    /\ pc = "error"
    /\ error = [type |-> "KeyError", at |-> "replan_step"]
    /\ plan = <<"A", "B", "C">>
    /\ Len(past_steps) = 1
    /\ "response" \notin keys

(***************************************************************************)
(* Properties of ResponderWithRetries.respond (SpecReflection).            *)
(***************************************************************************)
Finished == r_pc \in {"returned", "raised"}

\* C3: a respond call in which the validator rejected every response does
\* not raise; it returns the response of the third invocation.
C3_ExhaustedReturnsLast ==
    (Finished /\ r_log # <<>> /\ \A i \in 1..Len(r_log) : ~r_log[i].valid)
        => /\ r_pc = "returned"
           /\ Len(r_log) = MaxAttempts
           /\ r_return = r_log[MaxAttempts].response

\* C4: one respond call invokes the runnable at least once and at most
\* three times.
C4_InvocationsBounded ==
    /\ Len(r_log) <= MaxAttempts
    /\ Finished => Len(r_log) >= 1

C4_Witness ==
    /\ Finished
    /\ Len(r_log) = 1
    /\ g_pc \in {"execute_tools", "error"}

(***************************************************************************)
(* Properties of extract_json (SpecExtract).                               *)
(***************************************************************************)
\* the bodies of the fenced blocks of the drawn text, in order
Fences(parts) == SelectSeq(parts, LAMBDA part : part.fenced)
LastBlock(parts) == Fences(parts)[Len(Fences(parts))]

\* a payload as the prompts show it, without outer braces
BarePayloads == {b \in Bodies : b # <<>>}

PayloadParts(parts) ==
    IF Fences(parts) # <<>> THEN Fences(parts)
    ELSE SelectSeq(parts, LAMBDA part : part.body # <<>>)
OneBarePayload(parts) ==
    /\ Len(PayloadParts(parts)) = 1
    /\ strip(PayloadParts(parts)[1].body) \in BarePayloads

\* C12: a text holding exactly one payload without its outer braces is
\* parsed to that payload, and extract_json run again on the repaired
\* (braced) candidate gives the same payload, the candidate not being
\* wrapped a second time.
C12_RepairIdempotent ==
    (x_pc = "redone" /\ OneBarePayload(x_parts))
        => LET repaired == Wrapped(Candidate(RawText(x_parts)))
           IN  /\ x_out.err = "none"
               /\ x_out.obj = DictOf(PayloadParts(x_parts)[1].body)
               /\ x_again = x_out
               /\ repaired = Braced(strip(PayloadParts(x_parts)[1].body))
                     \/ repaired = Braced(PayloadParts(x_parts)[1].body)
               /\ Wrapped(Candidate(repaired)) = repaired

C12_Witness ==
    /\ x_pc = "redone"
    /\ x_parts = <<Outside(Padded(<<StepsPair(<<"A", "B", "C">>)>>))>>
    /\ x_out.obj.steps = <<"A", "B", "C">>
    /\ x_again.err = "none"
    /\ x_again.obj.steps = <<"A", "B", "C">>

\* the exceptions ast.literal_eval raises on a malformed text
ParsingErrors == {"SyntaxError", "ValueError", "TypeError"}

\* C19: a text without a fenced json block is taken whole as the candidate,
\* is wrapped in braces exactly when it does not begin with an opening
\* brace, and then parsed: the outcome is a payload or a parsing error,
\* never another failure, the empty text included.
C19_UnfencedParsedOrParseError ==
    (x_pc = "done" /\ Fences(x_parts) = <<>>)
        => LET text == RawText(x_parts)
           IN  /\ x_out.err \in {"none"} \cup ParsingErrors
               /\ Candidate(text) = text
               /\ Wrapped(text) = IF text[1] = LBrace THEN text ELSE Braced(text)
               /\ x_out.err = "none"
                    <=> Parse(Lex(Wrapped(text))) \in {"ok", "tuple"}

(***************************************************************************)
(* Further properties of the reflection graph (SpecReflection).            *)
(***************************************************************************)
\* C13: when the validator rejects a response, respond goes on with the
\* history it had plus the rejected response and a corrective tool message,
\* so that after k rejections the history is the graph's messages plus 2*k
\* entries.
C13_HistoryGrowsByTwo ==
    [][\A resp \in AIResponses :
          (RespondWith(resp) /\ r_attempt \in AttemptRange /\ ~validator(resp))
              => /\ r_error' = "none"
                 /\ r_state'.messages = r_state.messages \o <<resp, Corrective>>
                 /\ Len(r_state'.messages)
                        = Len(messages) + 2 * (r_attempt + 1)]_vars

\* the messages of kind tool or ai at the end of msgs, up to the first
\* message of another kind
TrailingCount(msgs) ==
    Max({k \in 0..Len(msgs) :
            \A i \in (Len(msgs) - k + 1)..Len(msgs) :
                msgs[i].type \in {"tool", "ai"}})

\* C15: after a revise step that returned, the loop ends exactly when more
\* than 5 messages of kind tool or ai stand at the end of the history, and
\* goes to execute_tools otherwise.
C15_LoopEndsAboveFive ==
    [][(g_pc = "revise" /\ g_pc' \notin {"revise", "error"})
          => /\ g_pc' = "__end__" <=> TrailingCount(messages') > 5
             /\ g_pc' = "execute_tools" <=> TrailingCount(messages') <= 5]_vars

C15_Witness ==
    /\ g_pc = "__end__"
    /\ TrailingCount(messages) = 6
    /\ messages[Len(messages)].type = "ai"

\* C16: respond leaves the messages of the state it was given as they are,
\* what it returns is the final response alone, and every call starts from
\* the messages the graph hands it.
C16_GrowthIsLocal ==
    [][/\ (r_pc = "loop" /\ r_pc' # "returned") => messages' = messages
       /\ (r_pc = "loop" /\ r_pc' = "returned")
            => /\ r_return' = r_log'[Len(r_log')].response
               /\ messages' = Append(messages, r_return')
       /\ (r_pc # "loop" /\ r_pc' = "loop")
            => /\ r_state' = PyDict(messages)
               /\ r_log' = <<>>]_vars

C16_Witness ==
    /\ g_pc = "revise"
    /\ r_pc = "loop"
    /\ Len(messages) >= 5
    /\ r_state = PyDict(messages)
    /\ r_log = <<>>

\* C18: a respond call never goes on after an accepted response: it
\* returns at the first one, having invoked the runnable as often as the
\* index of that response says, and returns that response.
C18_ReturnsFirstAccepted ==
    LET ok == {i \in 1..Len(r_log) : r_log[i].valid}
    IN  /\ r_pc = "loop" => ok = {}
        /\ (Finished /\ ok # {})
             => /\ r_pc = "returned"
                /\ Min(ok) \in 1..3
                /\ Len(r_log) = Min(ok)
                /\ r_return = r_log[Min(ok)].response

C18_Witness ==
    /\ r_pc = "returned"
    /\ g_pc = "execute_tools"
    /\ Len(r_log) = 1
    /\ r_log[1].valid
    /\ r_return = Msg("ai", "other answer")

\* each tool step so far added one tool message
SingleToolMessages ==
    \A i \in 1..(Len(messages) - 1) :
        ~(messages[i].type = "tool" /\ messages[i + 1].type = "tool")

MessageTypes == [i \in 1..Len(messages) |-> messages[i].type]

\* C21: with one user message at the start, one assistant message added
\* by each draft and revise step and one tool message by each tool step,
\* the loop ends by itself: draft, then three rounds of execute_tools and
\* revise, the third revise leaving 7 trailing messages and ending the run.
C21_ThreeRoundsThenEnd ==
    SingleToolMessages
        => /\ IsPrefix(MessageTypes,
                       <<"human", "ai", "tool", "ai", "tool", "ai", "tool", "ai">>)
           /\ g_pc = "__end__"
                => (Len(messages) = 8 /\ TrailingCount(messages) = 7)
           /\ (Len(messages) = 8 /\ r_pc # "loop") => g_pc = "__end__"
           /\ g_pc = "draft" => Len(messages) = 1
           /\ g_pc = "revise" => Len(messages) \in {3, 5, 7}
           /\ g_pc = "execute_tools" => Len(messages) \in {2, 4, 6}

C21_Witness ==
    /\ g_pc = "__end__"
    /\ SingleToolMessages
    /\ MessageTypes = <<"human", "ai", "tool", "ai", "tool", "ai", "tool", "ai">>

(***************************************************************************)
(* Properties of the ReWOO graph (SpecReWOO).                              *)
(***************************************************************************)
\* C23: whenever the tool node is about to run, the step in the state is
\* a parsed step tuple and not None.
C23_ToolHasStep == w_pc = "tool" => w_step # StepNone

\* how often node n ran to its end
Runs(n) == Cardinality({i \in 1..Len(w_log) : w_log[i] = n})

\* C24: a review step is followed by solve exactly when it left the step
\* None, and by the tool node otherwise; solve runs at most once and only
\* after a tool execution, nothing else writes result, and the run ends
\* directly after solve.
C24_SolveAfterReview ==
    [][/\ (w_pc = "review" /\ w_pc' # w_pc)
            => /\ w_pc' = "solve" <=> w_step' = StepNone
               /\ w_pc' = "tool" <=> w_step' # StepNone
       /\ w_pc' = "solve" => (w_pc = "review" /\ Runs("tool") >= 1)
       /\ (w_pc = "solve" /\ w_pc' # w_pc) => w_pc' = "__end__"
       /\ w_pc' = "__end__" => w_pc = "solve"
       /\ (w_result' # w_result \/ w_keys' \ w_keys = {"result"})
            => w_pc = "solve"
       /\ w_log' # <<>> => w_log'[1] = "plan"
       /\ \A i \in 1..Len(w_log') :
              w_log'[i] = "solve" => (i = Len(w_log') /\ w_log'[i - 1] = "review")]_vars

C24_Witness ==
    /\ w_pc = "__end__"
    /\ w_log = <<"plan", "tool", "review", "tool", "review", "solve">>
    /\ w_result = "final answer"
    /\ w_step = StepNone

\* C25: a tool execution that succeeds appends one result at the end of
\* results and changes no earlier entry, so that results has one entry for
\* each tool execution, in order; a step with a tool other than WebSearch
\* and LLM raises ValueError and leaves results as they were.
C25_ResultsAppendOnly ==
    [][/\ \A o \in ToolOutcomes :
              (ToolExecutionWith(o) /\ w_step # StepNone)
                  => IF w_step.tool \in {"WebSearch", "LLM"} /\ ~o.raised
                     THEN /\ w_results' = Append(w_results, o.text)
                          /\ w_pc' = "review"
                     ELSE /\ w_results' = w_results
                          /\ w_pc' = "error"
                          /\ w_step.tool \notin {"WebSearch", "LLM"}
                               => w_error' = "ValueError"
       /\ IsPrefix(w_results, w_results')
       /\ Len(w_results') = Runs("tool")']_vars

C25_Witness ==
    /\ w_results = <<"evidence", "other evidence">>
    /\ Runs("tool") = 2
    /\ w_pc = "review"

(***************************************************************************)
(* Properties of the skills agent (SpecSkills).                            *)
(***************************************************************************)
\* C26: write_sql_query returns the validated-query text exactly when the
\* vertical is in skills_loaded at the time of the call, and the must-load
\* error text otherwise; it changes nothing of the agent state: the tool
\* node adds the returned text as a tool message and that is all.
C26_QueryNeedsLoadedSkill ==
    [][WriteSqlQuery
          => LET vertical == k_call.name
                 loaded == "skills_loaded" \in k_keys
                              /\ vertical \in Elements(k_skills_loaded)
                 text == k_messages'[Len(k_messages')]
             IN  /\ Len(k_messages') = Len(k_messages) + 1
                 /\ IsPrefix(k_messages, k_messages')
                 /\ loaded <=> text = ValidatedMsg(k_call.query, vertical)
                 /\ ~loaded <=> text = MustLoadMsg(vertical)
                 /\ k_skills_loaded' = k_skills_loaded
                 /\ k_keys' = k_keys]_vars

C26_Witness ==
    /\ k_pc = "model"
    /\ k_messages = <<MustLoadMsg("sales_analytics"),
                      LoadedMsg("sales_analytics"),
                      ValidatedMsg("SELECT 1", "sales_analytics")>>
    /\ k_skills_loaded = <<"sales_analytics">>

\* the skills for which a load_skill call succeeded so far
LoadedNames ==
    {k_messages[i].name : i \in {j \in 1..Len(k_messages) :
                                     k_messages[j].kind = "loaded"}}

\* C27: skills_loaded holds every skill for which a load_skill call
\* succeeded, so a skill stays loaded when another one is loaded later,
\* and a call with a name outside the catalogue leaves it as it was.
C27_LoadedSkillsKept ==
    /\ LoadedNames \subseteq Elements(k_skills_loaded)
    /\ Elements(k_skills_loaded) \subseteq Elements(SKILLS)

====
